---------------------------- MODULE Spec2Model ----------------------------
(***************************************************************************)
(* A model of sugar_diff: the measurement data model (meassurement.rs),    *)
(* the sorted insertion App::add_meassure, the key-event loop run_app and  *)
(* the derived analytics computed by ui (main.rs).                         *)
(*                                                                         *)
(* Conventions.                                                            *)
(*  - A Rust String is a sequence of one-character strings.                *)
(*  - A Rust Vec is a sequence; Rust positions are 0-based, so the entry   *)
(*    at Rust index i is v[i + 1] here.  Operators that take or return a   *)
(*    position keep the Rust (0-based) numbering.                          *)
(*  - An f32 is a record (see the section "f32"): finite values are exact  *)
(*    rationals, with the IEEE-754 infinities, NaN and the sign of zero.   *)
(*    Conversions i16 -> f32 are exact (24-bit significand); rounding of   *)
(*    a quotient to the nearest f32 is not modelled.                       *)
(*  - One step of the model is one iteration of the loop of run_app, cut   *)
(*    at event::read(): the handler of the event, then the terminal.draw   *)
(*    that opens the next iteration.                                       *)
(***************************************************************************)
EXTENDS Integers, Sequences, FiniteSets, TLC

(***************************************************************************)
(* Bounds of the model.                                                    *)
(***************************************************************************)
\* The number of measurements the log may hold: a successful add is only
\* taken below it.
MaxLog == 3

\* The texts the modelled user types into the Level field, key by key; every
\* prefix of them can be in the buffer and can be submitted.
LevelTexts == { <<"1", " ">>, <<"-", "2">>, <<"x">> }

\* The texts the modelled user types into the Time field.
TimeTexts == { <<"1", ":", "1", "0">>, <<"2", ":", "0", ":">> }

Prefixes(texts) == UNION { { SubSeq(t, 1, k) : k \in 0..Len(t) } : t \in texts }

Chars == UNION { { t[i] : i \in 1..Len(t) } : t \in LevelTexts \cup TimeTexts }

(***************************************************************************)
(* Fixed-width integers.                                                   *)
(***************************************************************************)
I16_MIN == -32768
I16_MAX == 32767
U8_MAX == 255

\* The value an i16 operation yields when it wraps (overflow checks off).
WrapI16(x) == ((x - I16_MIN) % 65536) + I16_MIN

\* Whether the exact result x of an i16 operation does not fit (the operation
\* panics when overflow checks are on).
OverflowsI16(x) == x < I16_MIN \/ x > I16_MAX

(***************************************************************************)
(* Strings: str::trim, str::split, str::parse.                             *)
(***************************************************************************)
IsWhitespace(c) == c = " "

RECURSIVE trim_start(_)
trim_start(s) ==
    IF s # <<>> /\ IsWhitespace(Head(s)) THEN trim_start(Tail(s)) ELSE s

RECURSIVE trim_end(_)
trim_end(s) ==
    IF s # <<>> /\ IsWhitespace(s[Len(s)])
    THEN trim_end(SubSeq(s, 1, Len(s) - 1))
    ELSE s

trim(s) == trim_end(trim_start(s))

\* s.split(sep): the fields between the separators; never empty ("" has the
\* single field "").
RECURSIVE split(_, _)
split(s, sep) ==
    IF \E i \in 1..Len(s) : s[i] = sep
    THEN LET i == CHOOSE j \in 1..Len(s) :
                      s[j] = sep /\ \A k \in 1..(j - 1) : s[k] # sep
         IN  <<SubSeq(s, 1, i - 1)>> \o split(SubSeq(s, i + 1, Len(s)), sep)
    ELSE <<s>>

DigitChars == {"0", "1", "2", "3", "4", "5", "6", "7", "8", "9"}

DigitVal(c) ==
    CASE c = "0" -> 0 [] c = "1" -> 1 [] c = "2" -> 2 [] c = "3" -> 3
      [] c = "4" -> 4 [] c = "5" -> 5 [] c = "6" -> 6 [] c = "7" -> 7
      [] c = "8" -> 8 [] c = "9" -> 9

\* The digits of s accumulated left to right; -1 when a character is no digit
\* or the magnitude exceeds limit.
RECURSIVE parse_digits(_, _, _)
parse_digits(s, acc, limit) ==
    IF s = <<>> THEN acc
    ELSE IF Head(s) \notin DigitChars THEN -1
    ELSE LET next == acc * 10 + DigitVal(Head(s))
         IN  IF next > limit THEN -1 ELSE parse_digits(Tail(s), next, limit)

ParseErr == [ok |-> FALSE, v |-> 0]

\* str::parse::<i16>(): an optional sign, then one or more decimal digits, the
\* value within i16.
parse_i16(s) ==
    IF s = <<>> THEN ParseErr
    ELSE LET signed == Head(s) \in {"+", "-"}
             neg    == Head(s) = "-"
             digits == IF signed THEN Tail(s) ELSE s
             mag    == parse_digits(digits, 0, IF neg THEN -I16_MIN ELSE I16_MAX)
         IN  IF digits = <<>> \/ mag < 0 THEN ParseErr
             ELSE [ok |-> TRUE, v |-> IF neg THEN -mag ELSE mag]

\* str::parse::<u8>(): an optional "+", then one or more decimal digits, the
\* value within u8.
parse_u8(s) ==
    IF s = <<>> THEN ParseErr
    ELSE LET digits == IF Head(s) = "+" THEN Tail(s) ELSE s
             mag    == parse_digits(digits, 0, U8_MAX)
         IN  IF digits = <<>> \/ mag < 0 THEN ParseErr
             ELSE [ok |-> TRUE, v |-> mag]

(***************************************************************************)
(* f32.  A value is [cls, neg, num, den]: cls "fin" is the rational        *)
(* (-1)^neg * num / den in lowest terms (zero is 0/1 and keeps its sign),  *)
(* cls "inf" is the infinity of sign neg, cls "nan" is NaN.                *)
(***************************************************************************)
RECURSIVE Gcd(_, _)
Gcd(a, b) == IF b = 0 THEN a ELSE Gcd(b, a % b)

F32Nan == [cls |-> "nan", neg |-> FALSE, num |-> 0, den |-> 1]

F32Inf(neg) == [cls |-> "inf", neg |-> neg, num |-> 0, den |-> 1]

F32Fin(neg, num, den) ==
    LET g == Gcd(num, den)
    IN  [cls |-> "fin", neg |-> neg, num |-> num \div g, den |-> den \div g]

Abs(x) == IF x < 0 THEN -x ELSE x

\* `i as f32` for an i16 i: exact.
I16AsF32(i) == F32Fin(i < 0, Abs(i), 1)

F32IsZero(a) == a.cls = "fin" /\ a.num = 0

\* a / b by the IEEE-754 rules.
F32Div(a, b) ==
    LET neg == a.neg # b.neg
    IN  CASE a.cls = "nan" \/ b.cls = "nan"   -> F32Nan
          [] a.cls = "inf" /\ b.cls = "inf"   -> F32Nan
          [] F32IsZero(a) /\ F32IsZero(b)     -> F32Nan
          [] a.cls = "inf"                    -> F32Inf(neg)
          [] b.cls = "inf"                    -> F32Fin(neg, 0, 1)
          [] F32IsZero(b)                     -> F32Inf(neg)
          [] OTHER -> F32Fin(neg, a.num * b.den, a.den * b.num)

\* a <= 0.0: false for NaN, true for both zeros.
F32LeZero(a) ==
    CASE a.cls = "nan" -> FALSE
      [] a.cls = "inf" -> a.neg
      [] OTHER         -> a.neg \/ a.num = 0

(***************************************************************************)
(* meassurement.rs: Time and Meassurement.                                 *)
(***************************************************************************)
NoTime == [h |-> 0, m |-> 0]

\* impl From<String> for Time.  ok = FALSE stands for the panic of one of the
\* unwraps: the second field is missing, or one of the first two fields does
\* not parse as u8.  Fields after the second are never parsed.
Time_from(s) ==
    LET fields == split(s, ":")
        h      == parse_u8(fields[1])
    IN  IF ~h.ok \/ Len(fields) < 2 THEN [ok |-> FALSE, t |-> NoTime]
        ELSE LET m == parse_u8(fields[2])
             IN  IF ~m.ok THEN [ok |-> FALSE, t |-> NoTime]
                 ELSE [ok |-> TRUE, t |-> [h |-> h.v, m |-> m.v]]

\* Faulty variant of Time_timestamp: the arithmetic is done in u8, the width of
\* the fields, and wraps there.
Time_timestamp_u8(t) == (((t.h * 60) % (U8_MAX + 1)) + t.m) % (U8_MAX + 1)

\* Time::timestamp, in i16 arithmetic.
Time_timestamp(t) == WrapI16(WrapI16(t.h * 60) + t.m)

NoMeassurement == [y |-> 0, t |-> NoTime]

\* Faulty variant of Meassurement_new: the time is converted before the value
\* is parsed.
Meassurement_new_time_first(ys, t) ==
    LET tm == Time_from(trim(t))
    IN  IF ~tm.ok THEN [res |-> "panic", m |-> NoMeassurement]
        ELSE LET y == parse_i16(trim(ys))
             IN  IF ~y.ok THEN [res |-> "Err", m |-> NoMeassurement]
                 ELSE [res |-> "Ok", m |-> [y |-> y.v, t |-> tm.t]]

\* Meassurement::new.  res is "Ok" (m is the measurement), "Err" (the `?` on
\* the value's parse returns the error) or "panic" (Time::from panicked).
\* The value is parsed first.
Meassurement_new(ys, t) ==
    LET y == parse_i16(trim(ys))
    IN  IF ~y.ok THEN [res |-> "Err", m |-> NoMeassurement]
        ELSE LET tm == Time_from(trim(t))
             IN  IF ~tm.ok THEN [res |-> "panic", m |-> NoMeassurement]
                 ELSE [res |-> "Ok", m |-> [y |-> y.v, t |-> tm.t]]

\* Meassurement::y
y(m) == m.y

\* Meassurement::timestamp
timestamp(m) == Time_timestamp(m.t)

\* Faulty variant of diff: the elapsed time is taken as a magnitude.
diff_abs_dt(self, m_2) ==
    LET dy == I16AsF32(WrapI16(self.y - m_2.y))
        dt == I16AsF32(Abs(WrapI16(timestamp(self) - timestamp(m_2))))
    IN  F32Div(dy, dt)

\* Meassurement::diff with the i16 subtractions wrapping.
diff(self, m_2) ==
    LET dy == I16AsF32(WrapI16(self.y - m_2.y))
        dt == I16AsF32(WrapI16(timestamp(self) - timestamp(m_2)))
    IN  F32Div(dy, dt)

\* Whether one of the i16 subtractions of diff overflows (a panic when
\* overflow checks are on).
diff_overflows(self, m_2) ==
    \/ OverflowsI16(self.y - m_2.y)
    \/ OverflowsI16(timestamp(self) - timestamp(m_2))

(***************************************************************************)
(* main.rs: the application state.                                         *)
(***************************************************************************)
VARIABLES
    level_input,     \* App.level_input
    time_input,      \* App.time_input
    input_mode,      \* App.input_mode: "Level" or "Time"
    meassurements,   \* App.meassurements
    status,          \* "running": run_app is at event::read(); "exited":
                     \* run_app returned Ok (Esc); "error": run_app returned
                     \* the Err of add_meassure; "panicked": a panic unwound
    screen,          \* what the last completed terminal.draw painted
    ordinal          \* history: ordinal[i] is the number of the successful
                     \* add that stored meassurements[i] (1 for the first)

vars == <<level_input, time_input, input_mode, meassurements, status, screen,
          ordinal>>

\* Faulty variant of Vec_insert: the element at index is overwritten, not shifted.
Vec_insert_overwrite(v, index, element) ==
    SubSeq(v, 1, index) \o <<element>> \o SubSeq(v, index + 2, Len(v))

\* Vec::insert(index, element), index 0-based.
Vec_insert(v, index, element) ==
    SubSeq(v, 1, index) \o <<element>> \o SubSeq(v, index + 1, Len(v))

\* Faulty variant of find_predicate: `<=` for `<`.
find_predicate_le(m2, m) == timestamp(m2) <= timestamp(m)

\* The closure of the find in add_meassure: |(_, m2)| m2.timestamp() < m.timestamp()
find_predicate(m2, m) == timestamp(m2) < timestamp(m)

\* meassurements.iter().enumerate().rev().find(..): the entries are visited
\* from the last one (from = len - 1) down to the first; the 0-based index of
\* the first one visited that satisfies the closure, -1 for None.
RECURSIVE rev_find(_, _, _)
rev_find(ms, from, m) ==
    IF from < 0 THEN -1
    ELSE IF find_predicate(ms[from + 1], m) THEN from
    ELSE rev_find(ms, from - 1, m)

\* Faulty variant of insert_index: the new entry is pushed at the end.
insert_index_push(ms, m) == Len(ms)

\* Faulty variant of insert_index: `idx` for `idx+1`.
insert_index_at_found(ms, m) ==
    LET idx == rev_find(ms, Len(ms) - 1, m)
    IN  IF idx # -1 THEN idx ELSE 0

\* The index argument of the insert of add_meassure.
insert_index(ms, m) ==
    LET idx == rev_find(ms, Len(ms) - 1, m)
    IN  IF idx # -1 THEN idx + 1 ELSE 0

\* Faulty variant of add_meassure: only level_input is cleared after the insert.
add_meassure_keeps_time(level, time, ms) ==
    LET new == Meassurement_new(level, time)
    IN  IF new.res # "Ok"
        THEN [res |-> new.res, level_input |-> level, time_input |-> time,
              meassurements |-> ms, index |-> -1]
        ELSE LET index == insert_index(ms, new.m)
             IN  [res |-> "Ok", level_input |-> <<>>, time_input |-> time,
                  meassurements |-> Vec_insert(ms, index, new.m),
                  index |-> index]

\* Faulty variant of add_meassure: the buffers are cleared before the texts are parsed.
add_meassure_clears_first(level, time, ms) ==
    LET new == Meassurement_new(level, time)
    IN  IF new.res # "Ok"
        THEN [res |-> new.res, level_input |-> <<>>, time_input |-> <<>>,
              meassurements |-> ms, index |-> -1]
        ELSE LET index == insert_index(ms, new.m)
             IN  [res |-> "Ok", level_input |-> <<>>, time_input |-> <<>>,
                  meassurements |-> Vec_insert(ms, index, new.m),
                  index |-> index]

\* App::add_meassure on the fields it reads and writes.  res is the outcome of
\* Meassurement::new; index is where the new entry went.
add_meassure(level, time, ms) ==
    LET new == Meassurement_new(level, time)
    IN  IF new.res # "Ok"
        THEN [res |-> new.res, level_input |-> level, time_input |-> time,
              meassurements |-> ms, index |-> -1]
        ELSE LET index == insert_index(ms, new.m)
             IN  [res |-> "Ok", level_input |-> <<>>, time_input |-> <<>>,
                  meassurements |-> Vec_insert(ms, index, new.m),
                  index |-> index]

(***************************************************************************)
(* main.rs: ui, the analytics painted by each draw.                        *)
(***************************************************************************)
WindowSize == 6
LowThreshold == 80
HighThreshold == 300

\* Faulty variant of start_idx: one entry too few is listed.
start_idx_one_late(ms) ==
    IF Len(ms) >= WindowSize THEN Len(ms) - WindowSize + 1 ELSE 0

\* start_idx: the 0-based index of the first entry listed.
start_idx(ms) == IF Len(ms) >= WindowSize THEN Len(ms) - WindowSize ELSE 0

\* Faulty variant of list_item: the first entry listed gets no rate, instead
\* of the first entry of the log.
list_item_window_first(ms, i) ==
    [m    |-> ms[i + 1],
     rate |-> IF i > start_idx(ms)
              THEN [some |-> TRUE, v |-> diff(ms[i + 1], ms[i])]
              ELSE [some |-> FALSE, v |-> F32Nan]]

NoRate == [some |-> FALSE, v |-> F32Nan]

\* The list item of the entry at 0-based index i: the entry (painted by
\* to_string) and its rate against the entry before it.
list_item(ms, i) ==
    [m    |-> ms[i + 1],
     rate |-> IF i > 0 THEN [some |-> TRUE, v |-> diff(ms[i + 1], ms[i])]
              ELSE NoRate]

\* items: one per index of start_idx..len.
items(ms) ==
    [k \in 1..(Len(ms) - start_idx(ms)) |-> list_item(ms, start_idx(ms) + k - 1)]

\* data: the chart's points.
data(ms) == [k \in 1..Len(ms) |-> <<timestamp(ms[k]), y(ms[k])>>]

\* Faulty variant of time_to_text: `len() > 2` for `len() >= 2`.
time_to_text_gt(ms) ==
    IF Len(ms) > 2
    THEN LET mf    == ms[Len(ms)]
             mpf   == ms[Len(ms) - 1]
             level == y(mf)
             rate  == diff(mf, mpf)
         IN  IF F32LeZero(rate)
             THEN [variant |-> "low",
                   time |-> F32Div(I16AsF32(WrapI16(LowThreshold - level)), rate)]
             ELSE [variant |-> "high",
                   time |-> F32Div(I16AsF32(WrapI16(HighThreshold - level)), rate)]
    ELSE [variant |-> "waiting", time |-> F32Nan]

\* time_to_text: the placeholder, or the variant and the time in minutes that
\* the text is formatted from (the formatting of the duration, by the crate
\* human_duration, is not modelled).
time_to_text(ms) ==
    IF Len(ms) >= 2
    THEN LET mf    == ms[Len(ms)]
             mpf   == ms[Len(ms) - 1]
             level == y(mf)
             rate  == diff(mf, mpf)
         IN  IF F32LeZero(rate)
             THEN [variant |-> "low",
                   time |-> F32Div(I16AsF32(WrapI16(LowThreshold - level)), rate)]
             ELSE [variant |-> "high",
                   time |-> F32Div(I16AsF32(WrapI16(HighThreshold - level)), rate)]
    ELSE [variant |-> "waiting", time |-> F32Nan]

\* The calls of Meassurement::diff one ui makes, as pairs <<i, j>> of 0-based
\* indices: meassurements[i].diff(&meassurements[j]).
diff_calls(ms) ==
    { <<i, i - 1>> : i \in { j \in start_idx(ms)..(Len(ms) - 1) : j > 0 } }
    \cup (IF Len(ms) >= 2 THEN { <<Len(ms) - 1, Len(ms) - 2>> } ELSE {})

\* Whether an i16 operation of ui overflows: a subtraction of a diff, or the
\* subtraction of the level from the threshold.
ui_overflows(ms) ==
    \/ \E c \in diff_calls(ms) : diff_overflows(ms[c[1] + 1], ms[c[2] + 1])
    \/ /\ Len(ms) >= 2
       /\ LET mf == ms[Len(ms)]
          IN  IF F32LeZero(diff(mf, ms[Len(ms) - 1]))
              THEN OverflowsI16(LowThreshold - y(mf))
              ELSE OverflowsI16(HighThreshold - y(mf))

\* What ui paints.
ui(level, time, mode, ms) ==
    [level_input |-> level,
     time_input  |-> time,
     items       |-> items(ms),
     data        |-> data(ms),
     time_to     |-> time_to_text(ms),
     cursor      |-> IF mode = "Level" THEN <<0, Len(level)>> ELSE <<1, Len(time)>>]

(***************************************************************************)
(* main.rs: run_app.                                                       *)
(***************************************************************************)
\* App::new, then the first draw of the loop.
Init ==
    /\ level_input = <<>>
    /\ time_input = <<>>
    /\ input_mode = "Level"
    /\ meassurements = <<>>
    /\ ordinal = <<>>
    /\ status = "running"
    /\ screen = ui(<<>>, <<>>, "Level", <<>>)

\* terminal.draw(|f| ui(f, &app)) at the top of the next iteration, on the
\* state the handler left.  An overflowing i16 operation panics in a build with
\* overflow checks and wraps in one without.
draw ==
    \E overflow_checks \in BOOLEAN :
        IF overflow_checks /\ ui_overflows(meassurements')
        THEN status' = "panicked" /\ UNCHANGED screen
        ELSE /\ status' = "running"
             /\ screen' = ui(level_input', time_input', input_mode', meassurements')

LevelPrefixes == Prefixes(LevelTexts)
TimePrefixes == Prefixes(TimeTexts)

\* KeyCode::Esc
KeyEsc ==
    /\ status = "running"
    /\ status' = "exited"
    /\ UNCHANGED <<level_input, time_input, input_mode, meassurements, screen,
                   ordinal>>

\* String::pop: removes the last character, if any.
pop(s) == IF s = <<>> THEN s ELSE SubSeq(s, 1, Len(s) - 1)

\* Faulty variant of KeyBackspace: the character is always removed from
\* level_input.
KeyBackspace_level_only ==
    /\ status = "running"
    /\ level_input' = pop(level_input)
    /\ UNCHANGED <<time_input, input_mode, meassurements, ordinal>>
    /\ draw

\* KeyCode::Backspace
KeyBackspace ==
    /\ status = "running"
    /\ IF input_mode = "Level"
       THEN level_input' = pop(level_input) /\ UNCHANGED time_input
       ELSE time_input' = pop(time_input) /\ UNCHANGED level_input
    /\ UNCHANGED <<input_mode, meassurements, ordinal>>
    /\ draw

\* String::push
push(s, c) == Append(s, c)

\* KeyCode::Char(c).  The user types the texts of LevelTexts and TimeTexts.
KeyChar(c) ==
    /\ status = "running"
    /\ IF input_mode = "Level"
       THEN /\ push(level_input, c) \in LevelPrefixes
            /\ level_input' = push(level_input, c)
            /\ UNCHANGED time_input
       ELSE /\ push(time_input, c) \in TimePrefixes
            /\ time_input' = push(time_input, c)
            /\ UNCHANGED level_input
    /\ UNCHANGED <<input_mode, meassurements, ordinal>>
    /\ draw

\* KeyCode::Enter in InputMode::Level
KeyEnterLevel ==
    /\ status = "running"
    /\ input_mode = "Level"
    /\ input_mode' = "Time"
    /\ UNCHANGED <<level_input, time_input, meassurements, ordinal>>
    /\ draw

\* Faulty variant of KeyEnterTime: the mode is set back to Level before add_meassure
\* is called.
KeyEnterTime_mode_first ==
    /\ status = "running"
    /\ input_mode = "Time"
    /\ Len(meassurements) < MaxLog
    /\ input_mode' = "Level"
    /\ LET r == add_meassure(level_input, time_input, meassurements)
       IN  IF r.res = "Ok"
           THEN /\ level_input' = r.level_input
                /\ time_input' = r.time_input
                /\ meassurements' = r.meassurements
                /\ ordinal' = Vec_insert(ordinal, r.index, Len(ordinal) + 1)
                /\ draw
           ELSE /\ status' = (IF r.res = "Err" THEN "error" ELSE "panicked")
                /\ level_input' = r.level_input
                /\ time_input' = r.time_input
                /\ meassurements' = r.meassurements
                /\ UNCHANGED <<screen, ordinal>>

\* KeyCode::Enter in InputMode::Time: app.add_meassure()?, then the mode goes
\* back to Level.  An Err leaves run_app through the `?`, a panic unwinds.
KeyEnterTime ==
    /\ status = "running"
    /\ input_mode = "Time"
    /\ Len(meassurements) < MaxLog
    /\ LET r == add_meassure(level_input, time_input, meassurements)
       IN  IF r.res = "Ok"
           THEN /\ level_input' = r.level_input
                /\ time_input' = r.time_input
                /\ meassurements' = r.meassurements
                /\ ordinal' = Vec_insert(ordinal, r.index, Len(ordinal) + 1)
                /\ input_mode' = "Level"
                /\ draw
           ELSE /\ status' = (IF r.res = "Err" THEN "error" ELSE "panicked")
                /\ level_input' = r.level_input
                /\ time_input' = r.time_input
                /\ meassurements' = r.meassurements
                /\ UNCHANGED <<input_mode, screen, ordinal>>

\* Any other key (`_ => continue`), or an event that is no key event: the loop
\* draws again and reads the next event.
OtherEvent ==
    /\ status = "running"
    /\ UNCHANGED <<level_input, time_input, input_mode, meassurements, ordinal>>
    /\ draw

Next ==
    \/ KeyEsc
    \/ KeyBackspace
    \/ \E c \in Chars : KeyChar(c)
    \/ KeyEnterLevel
    \/ KeyEnterTime
    \/ OtherEvent

Spec == Init /\ [][Next]_vars

(***************************************************************************)
(* The analytics of ui on logs of arbitrary values: every sorted log of    *)
(* measurements that Meassurement::new can construct is a log add_meassure *)
(* can build (by submitting its entries from the last to the first).      *)
(* UiSpec starts where the handler of the last add has returned, with such *)
(* a log, and steps through the draw that follows.                         *)
(***************************************************************************)
\* The longest log UiSpec starts from.
UiMaxLog == 2

\* The values and the times of the measurements of UiSpec.
UiLevels == {I16_MIN, 0, 70, 90, 100, 120, I16_MAX}
UiTimes ==
    { [h |-> 0, m |-> 0], [h |-> 8, m |-> 0], [h |-> 8, m |-> 10],
      [h |-> U8_MAX, m |-> U8_MAX] }

UiMeassurements == [y : UiLevels, t : UiTimes]

UiLogs ==
    UNION { { ms \in [1..n -> UiMeassurements] :
                \A i \in 1..(n - 1) : timestamp(ms[i]) <= timestamp(ms[i + 1]) }
            : n \in 0..UiMaxLog }

UiInit ==
    /\ level_input = <<>>
    /\ time_input = <<>>
    /\ input_mode = "Level"
    /\ meassurements \in UiLogs
    /\ ordinal = [i \in 1..Len(meassurements) |-> Len(meassurements) + 1 - i]
    /\ status = "running"
    /\ screen = ui(<<>>, <<>>, "Level", <<>>)

UiNext == OtherEvent

UiSpec == UiInit /\ [][UiNext]_vars

(***************************************************************************)
(* The list of ui on logs longer than its window: WinSpec is UiSpec on     *)
(* longer logs of fewer measurements.                                      *)
(***************************************************************************)
\* The longest log WinSpec starts from.
WinMaxLog == 7

WinMeassurements == [y : {1, 2}, t : { [h |-> 8, m |-> 0], [h |-> 8, m |-> 10] }]

WinLogs ==
    UNION { { ms \in [1..n -> WinMeassurements] :
                \A i \in 1..(n - 1) : timestamp(ms[i]) <= timestamp(ms[i + 1]) }
            : n \in 0..WinMaxLog }

WinInit ==
    /\ level_input = <<>>
    /\ time_input = <<>>
    /\ input_mode = "Level"
    /\ meassurements \in WinLogs
    /\ ordinal = [i \in 1..Len(meassurements) |-> Len(meassurements) + 1 - i]
    /\ status = "running"
    /\ screen = ui(<<>>, <<>>, "Level", <<>>)

WinSpec == WinInit /\ [][UiNext]_vars

(***************************************************************************)
(* Properties.                                                             *)
(***************************************************************************)
\* The last draw completed on the current state of the application.
Drawn ==
    /\ status # "panicked"
    /\ screen = ui(level_input, time_input, input_mode, meassurements)

\* The timestamp of the log's entry at Rust index i.
TsAt(ms, i) == timestamp(ms[i + 1])

RustIndices(ms) == 0..(Len(ms) - 1)

\* A step in which KeyCode::Enter in InputMode::Time made add_meassure return
\* Ok: the only step that moves the mode from Time to Level.
AddSucceeds == input_mode = "Time" /\ input_mode' = "Level"

\* A step in which KeyCode::Enter in InputMode::Time made add_meassure fail:
\* the only step that ends the run on unparsable buffers.
AddFails ==
    /\ status = "running"
    /\ status' \in {"error", "panicked"}
    /\ input_mode = "Time"
    /\ Meassurement_new(level_input, time_input).res # "Ok"

\* C1: after any sequence of successful adds, in any order of their times,
\* every adjacent pair of the log has log[i].timestamp <= log[i+1].timestamp.
C1_LogSorted ==
    \A i \in RustIndices(meassurements) :
        i + 1 \in RustIndices(meassurements)
            => TsAt(meassurements, i) <= TsAt(meassurements, i + 1)

\* Three entries with three different times, the earliest submitted last.
C1_Witness ==
    /\ Len(meassurements) >= 3
    /\ \A i \in 0..1 : TsAt(meassurements, i) < TsAt(meassurements, i + 1)
    /\ ordinal[1] = 3

\* C2, as the specification states it: entries with equal timestamps appear in
\* the log in the order they were submitted (a new entry goes after all prior
\* entries of its timestamp).
C2_EqualTimestampsInSubmissionOrder ==
    \A i, j \in RustIndices(meassurements) :
        (i < j /\ TsAt(meassurements, i) = TsAt(meassurements, j))
            => ordinal[i + 1] < ordinal[j + 1]

\* C2, amended: a new entry goes before all prior entries of its timestamp, so
\* entries with equal timestamps appear in the log in the reverse of the order
\* they were submitted.
C2_EqualTimestampsNewestFirst ==
    \A i, j \in RustIndices(meassurements) :
        (i < j /\ TsAt(meassurements, i) = TsAt(meassurements, j))
            => ordinal[i + 1] > ordinal[j + 1]

\* Three entries of one timestamp, the newest first.
C2_Witness ==
    /\ Len(meassurements) >= 3
    /\ \E i \in RustIndices(meassurements) :
          /\ i + 2 \in RustIndices(meassurements)
          /\ TsAt(meassurements, i) = TsAt(meassurements, i + 2)
          /\ ordinal[i + 1] > ordinal[i + 2]
          /\ ordinal[i + 2] > ordinal[i + 3]

\* The largest Rust index whose entry has a timestamp strictly less than ts,
\* -1 when there is none.
LastStrictlyLess(ms, ts) ==
    LET less == { i \in RustIndices(ms) : TsAt(ms, i) < ts }
    IN  IF less = {} THEN -1
        ELSE CHOOSE k \in less : \A i \in less : i <= k

\* C3: a successful add places the new measurement m at index k + 1, where k
\* is the largest index whose entry has a timestamp strictly less than
\* m.timestamp, and at index 0 when no entry has one.
C3_InsertAfterLastStrictlyLess ==
    [][AddSucceeds =>
         LET m == Meassurement_new(level_input, time_input).m
             k == LastStrictlyLess(meassurements, timestamp(m))
         IN  meassurements' =
                 Vec_insert(meassurements, IF k = -1 THEN 0 ELSE k + 1, m)]_vars

\* The third add went between an entry of a smaller timestamp and one of a
\* greater or equal one.
C3_Witness ==
    /\ Len(meassurements) = 3
    /\ ordinal = <<1, 3, 2>>
    /\ TsAt(meassurements, 0) < TsAt(meassurements, 1)

\* C4, as the specification states it: a parse error during measurement
\* construction never terminates or crashes the application; from a state whose
\* buffers do not parse, every step leaves the loop running (or exited by Esc).
C4_ParseErrorKeepsLoopRunning ==
    [][(/\ status = "running"
        /\ input_mode = "Time"
        /\ Meassurement_new(level_input, time_input).res # "Ok")
          => status' \in {"running", "exited"}]_vars

\* C5: when an add fails to parse its value or time, the log and both buffers
\* are exactly as they were before it.
C5_FailedAddChangesNothing ==
    [][AddFails =>
         /\ meassurements' = meassurements
         /\ level_input' = level_input
         /\ time_input' = time_input]_vars

\* A failed add on a log that holds an entry, with text in both buffers.
C5_Witness ==
    /\ status \in {"error", "panicked"}
    /\ meassurements # <<>>
    /\ level_input # <<>>
    /\ time_input # <<>>

\* C6, as the specification states it: no draw evaluates Diff on two
\* measurements that share a timestamp.
C6_NoDiffOnEqualTimestamps ==
    Drawn =>
        \A c \in diff_calls(meassurements) :
            TsAt(meassurements, c[1]) # TsAt(meassurements, c[2])

\* The real number n as an f32 value, without a 16-bit range.
RealOf(n) == F32Fin(n < 0, Abs(n), 1)

\* a > 0.0
F32GtZero(a) == a.cls # "nan" /\ ~a.neg /\ ~F32IsZero(a)

At(value, h, m) == [y |-> value, t |-> [h |-> h, m |-> m]]

\* C7, as the specification states it: for a log of at least two entries, with
\* rate = last.Diff(prev): if rate <= 0 the direction is low and minutes =
\* (80 - last.value) / rate; if rate > 0 the direction is high and minutes =
\* (300 - last.value) / rate.  100@08:00, 120@08:10 give high and 90 minutes;
\* 90@08:00, 70@08:10 give low and 5 minutes.
C7_ProjectionFormula ==
    (Drawn /\ Len(meassurements) >= 2) =>
        LET last == meassurements[Len(meassurements)]
            prev == meassurements[Len(meassurements) - 1]
            rate == diff(last, prev)
            shown == screen.time_to
        IN  /\ F32LeZero(rate) =>
                 /\ shown.variant = "low"
                 /\ shown.time = F32Div(RealOf(80 - last.y), rate)
            /\ F32GtZero(rate) =>
                 /\ shown.variant = "high"
                 /\ shown.time = F32Div(RealOf(300 - last.y), rate)
            /\ meassurements = <<At(100, 8, 0), At(120, 8, 10)>> =>
                 shown = [variant |-> "high", time |-> RealOf(90)]
            /\ meassurements = <<At(90, 8, 0), At(70, 8, 10)>> =>
                 shown = [variant |-> "low", time |-> RealOf(5)]

\* C8: the projection is the waiting placeholder exactly when the log holds
\* fewer than two measurements; with two or more, a draw shows a low or a high
\* projection.
C8_PlaceholderIffFewerThanTwo ==
    Drawn =>
        /\ screen.time_to.variant \in {"waiting", "low", "high"}
        /\ screen.time_to.variant = "waiting" <=> Len(meassurements) < 2

\* A projection on exactly two entries.
C8_Witness ==
    /\ Drawn
    /\ Len(meassurements) = 2
    /\ screen.time_to.variant = "high"

\* C9: the input mode starts in Level; Enter in Level always moves it to Time
\* and leaves the log alone; the mode moves from Time to Level only with a
\* successful insert; no other step changes the mode, and the log changes
\* only on the step from Time to Level.
C9_InputModeMachine ==
    /\ input_mode = "Level"
    /\ [][/\ input_mode' \in {"Level", "Time"}
          /\ KeyEnterLevel => input_mode' = "Time"
          /\ (input_mode = "Level" /\ input_mode' # input_mode) =>
                /\ input_mode' = "Time"
                /\ meassurements' = meassurements
                /\ level_input' = level_input
          /\ (input_mode = "Time" /\ input_mode' # input_mode) =>
                /\ input_mode' = "Level"
                /\ Meassurement_new(level_input, time_input).res = "Ok"
                /\ Len(meassurements') = Len(meassurements) + 1
          /\ meassurements' # meassurements =>
                (input_mode = "Time" /\ input_mode' = "Level")]_vars

\* The mode is back in Time after a full cycle that stored an entry.
C9_Witness ==
    /\ status = "running"
    /\ input_mode = "Time"
    /\ Len(meassurements) >= 1

\* s without its element at Rust index i.
RemoveAt(s, i) == SubSeq(s, 1, i) \o SubSeq(s, i + 2, Len(s))

\* C10: every step leaves the log unchanged or inserts exactly one new
\* measurement; the stored measurements keep their value, time and relative
\* order.
C10_LogOnlyGrows ==
    [][\/ meassurements' = meassurements
       \/ /\ Len(meassurements') = Len(meassurements) + 1
          /\ \E i \in RustIndices(meassurements') :
                RemoveAt(meassurements', i) = meassurements]_vars

\* The latest add went in front of two stored entries.
C10_Witness ==
    /\ Len(meassurements) >= 3
    /\ ordinal[1] = Len(meassurements)
    /\ TsAt(meassurements, 0) = TsAt(meassurements, 1)

Min(a, b) == IF a <= b THEN a ELSE b

\* C11: the list shows exactly the last 6 entries of the log in log order, or
\* all entries when the log holds fewer than 6, and a draw does not modify the
\* log.
C11_WindowIsLastSix ==
    /\ [](Drawn =>
            LET n == Len(meassurements)
                shown == Len(screen.items)
            IN  /\ shown = Min(n, 6)
                /\ \A k \in 1..shown :
                      screen.items[k].m = meassurements[n - shown + k])
    /\ [][OtherEvent => meassurements' = meassurements]_vars

\* Seven entries, six of them listed.
C11_Witness ==
    /\ Drawn
    /\ Len(meassurements) = 7
    /\ Len(screen.items) = 6
    /\ screen.items[1].m = meassurements[2]

\* -a
F32Neg(a) == IF a.cls = "nan" THEN a ELSE [a EXCEPT !.neg = ~a.neg]

\* a == b: false when one is NaN, true for the two zeros.
F32Eq(a, b) ==
    /\ a.cls # "nan"
    /\ b.cls # "nan"
    /\ (F32IsZero(a) /\ F32IsZero(b)) \/ a = b

\* The pairs of entries of the log with different timestamps.
PairsOfDifferentTimestamps ==
    { p \in (1..Len(meassurements)) \X (1..Len(meassurements)) :
        timestamp(meassurements[p[1]]) # timestamp(meassurements[p[2]]) }

\* C12, as the specification states it: for a and b with different
\* timestamps, a.Diff(b) equals the negation of b.Diff(a).
C12_DiffAntiSymmetric ==
    Drawn => \A p \in PairsOfDifferentTimestamps :
        LET a == meassurements[p[1]]
            b == meassurements[p[2]]
        IN  F32Eq(diff(a, b), F32Neg(diff(b, a)))

\* C12, amended: for a and b with different timestamps whose values differ by
\* at most 32767, a.Diff(b) equals b.Diff(a); it equals the negation of
\* b.Diff(a) only when both are zero.
C12_DiffSymmetric ==
    Drawn => \A p \in PairsOfDifferentTimestamps :
        LET a == meassurements[p[1]]
            b == meassurements[p[2]]
        IN  Abs(a.y - b.y) <= 32767 =>
                /\ F32Eq(diff(a, b), diff(b, a))
                /\ F32Eq(diff(a, b), F32Neg(diff(b, a))) <=> a.y = b.y

\* A draw showed a rate other than zero between entries of different times.
C12_Witness ==
    /\ Drawn
    /\ Len(meassurements) = 2
    /\ <<1, 2>> \in PairsOfDifferentTimestamps
    /\ screen.items[2].rate.some
    /\ screen.items[2].rate.v.cls = "fin"
    /\ screen.items[2].rate.v.num # 0

\* C13, as the specification states it: for every pair of constructible
\* measurements with different timestamps, Diff returns the mathematical
\* quotient (self.y - other.y) / (self.timestamp - other.timestamp), and the
\* subtraction of the values does not overflow 16 bits.
C13_DiffIsExactQuotient ==
    Drawn => \A p \in PairsOfDifferentTimestamps :
        LET a == meassurements[p[1]]
            b == meassurements[p[2]]
        IN  /\ ~OverflowsI16(a.y - b.y)
            /\ diff(a, b) = F32Div(RealOf(a.y - b.y),
                                   RealOf(timestamp(a) - timestamp(b)))

\* Both buffers hold text that does not parse.
BothMalformed ==
    /\ ~parse_i16(trim(level_input)).ok
    /\ ~Time_from(trim(time_input)).ok

\* C14: when both the value text and the time text are malformed, the add
\* ends with the value's error: the time text is never converted, so its
\* panic does not happen.
C14_ValueErrorFirst ==
    [][(status = "running" /\ status' # "running" /\ status' # "exited"
          /\ BothMalformed)
         => status' = "error"]_vars

\* An add ended with the value's error on a time text that would have panicked.
C14_Witness ==
    /\ status = "error"
    /\ BothMalformed
    /\ time_input # <<>>

\* The 0-based log index of the k-th (1-based) item on the screen.
LogIndexOfItem(k) == Len(meassurements) - Len(screen.items) + k - 1

\* C15: every listed entry at log index i > 0 carries the rate Diff against
\* log[i-1], also when log[i-1] is not listed; only the entry at log index 0
\* carries no rate.
C15_RateAgainstLogPredecessor ==
    Drawn =>
        \A k \in 1..Len(screen.items) :
            LET i == LogIndexOfItem(k)
            IN  /\ screen.items[k].m = meassurements[i + 1]
                /\ screen.items[k].rate.some <=> i > 0
                /\ i > 0 =>
                     screen.items[k].rate.v =
                         diff(meassurements[i + 1], meassurements[i])

\* Seven entries: the first one listed is log[1], and its rate against the
\* unlisted log[0] is finite and not zero.
C15_Witness ==
    /\ Drawn
    /\ Len(meassurements) = 7
    /\ LogIndexOfItem(1) = 1
    /\ screen.items[1].rate.some
    /\ screen.items[1].rate.v.cls = "fin"
    /\ ~F32IsZero(screen.items[1].rate.v)
    /\ screen.items[1].rate.v = diff(meassurements[2], meassurements[1])

\* The last two entries of a log of at least two.
LastTwo(ms) == <<ms[Len(ms) - 1], ms[Len(ms)]>>

\* C16: on a log of at least two entries, a successful add of a measurement
\* whose timestamp is at most that of the second-to-last entry leaves the last
\* two entries as they were, and with them the projection.
C16_EarlyAddKeepsProjection ==
    [][(/\ AddSucceeds
        /\ Len(meassurements) >= 2
        /\ timestamp(Meassurement_new(level_input, time_input).m)
              <= TsAt(meassurements, Len(meassurements) - 2))
         => /\ Len(meassurements') = Len(meassurements) + 1
            /\ LastTwo(meassurements') = LastTwo(meassurements)
            /\ time_to_text(meassurements') = time_to_text(meassurements)
            /\ status' = "running" =>
                  screen'.time_to = time_to_text(meassurements)]_vars

\* The third add carried the timestamp of the second-to-last entry and went
\* before it; the projection painted is one of the last two entries.
C16_Witness ==
    /\ Drawn
    /\ Len(meassurements) = 3
    /\ ordinal[1] = 3
    /\ TsAt(meassurements, 0) = TsAt(meassurements, 1)
    /\ TsAt(meassurements, 1) < TsAt(meassurements, 2)
    /\ screen.time_to.variant # "waiting"
    /\ screen.time_to.time.cls = "fin"

\* A step that stored a measurement: the log grew by one.
LogGrew == Len(meassurements') = Len(meassurements) + 1

\* C17: right after every successful add both buffers are empty and the mode
\* is value entry, so the texts of the next measurement start empty: while the
\* mode is value entry the time buffer holds nothing of an earlier add.
C17_BuffersEmptyAfterAdd ==
    /\ [][LogGrew => /\ level_input' = <<>>
                     /\ time_input' = <<>>
                     /\ input_mode' = "Level"
                     /\ status' = "running" =>
                           /\ screen'.level_input = <<>>
                           /\ screen'.time_input = <<>>]_vars
    /\ [](input_mode = "Level" => time_input = <<>>)

\* Right after the second successful add, whose texts were both non-empty.
C17_Witness ==
    /\ Drawn
    /\ Len(meassurements) = 2
    /\ level_input = <<>>
    /\ time_input = <<>>
    /\ input_mode = "Level"
    /\ screen.cursor = <<0, 0>>

\* s changed to t by one String::push or one String::pop.
PushedOrPopped(s, t) == t = pop(s) \/ (t # <<>> /\ pop(t) = s)

\* C18: a character key or Backspace changes only the buffer the mode
\* selects, and leaves the other buffer, the mode and the log as they were; a
\* key the loop does not know changes nothing of the application's state.
C18_KeysTouchOnlyTheModesBuffer ==
    [][/\ (KeyBackspace \/ \E c \in Chars : KeyChar(c)) =>
            /\ input_mode' = input_mode
            /\ meassurements' = meassurements
            /\ IF input_mode = "Level"
               THEN /\ time_input' = time_input
                    /\ PushedOrPopped(level_input, level_input')
               ELSE /\ level_input' = level_input
                    /\ PushedOrPopped(time_input, time_input')
       /\ OtherEvent =>
            UNCHANGED <<level_input, time_input, input_mode, meassurements>>
       /\ (status' = "running" /\ input_mode' = input_mode) =>
            /\ meassurements' = meassurements
            /\ input_mode = "Level" => time_input' = time_input
            /\ input_mode = "Time" => level_input' = level_input]_vars

\* Characters typed in time entry went to time_input, next to a level_input
\* typed before, on a log that holds an entry.
C18_Witness ==
    /\ Drawn
    /\ input_mode = "Time"
    /\ level_input = <<"-", "2">>
    /\ time_input = <<"1", ":">>
    /\ Len(meassurements) >= 1

\* hour*60 + minute over the integers.
ExactTimestamp(t) == t.h * 60 + t.m

\* The times at the corners of what parsing accepts, for every hour.
CornerTimes == [h : 0..U8_MAX, m : {0, U8_MAX}]

\* C19: for every Time that parsing accepts (h and m within u8), neither
\* operation of timestamp overflows i16 and the result is h*60 + m; the
\* difference of two such timestamps fits in i16 as well.
C19_TimestampFitsI16 ==
    /\ Time_from(<<"2", "5", "5", ":", "2", "5", "5">>) =
          [ok |-> TRUE, t |-> [h |-> U8_MAX, m |-> U8_MAX]]
    /\ ~Time_from(<<"2", "5", "6", ":", "0">>).ok
    /\ ~Time_from(<<"0", ":", "2", "5", "6">>).ok
    /\ ~Time_from(<<"-", "1", ":", "0">>).ok
    /\ \A t \in CornerTimes :
          /\ ~OverflowsI16(t.h * 60)
          /\ ~OverflowsI16(ExactTimestamp(t))
          /\ Time_timestamp(t) = ExactTimestamp(t)
    /\ \A i \in 1..Len(meassurements) :
          LET t == meassurements[i].t
          IN  /\ t.h \in 0..U8_MAX /\ t.m \in 0..U8_MAX
              /\ ~OverflowsI16(t.h * 60)
              /\ ~OverflowsI16(ExactTimestamp(t))
              /\ timestamp(meassurements[i]) = ExactTimestamp(t)
    /\ \A i, j \in 1..Len(meassurements) :
          LET dt == ExactTimestamp(meassurements[i].t)
                      - ExactTimestamp(meassurements[j].t)
          IN  /\ ~OverflowsI16(dt)
              /\ WrapI16(timestamp(meassurements[i]) - timestamp(meassurements[j]))
                    = dt

\* A log that holds the smallest and the largest time parsing accepts, drawn
\* with the rate between them.
C19_Witness ==
    /\ status = "running"
    /\ Len(meassurements) = 2
    /\ meassurements[1].t = [h |-> 0, m |-> 0]
    /\ meassurements[2].t = [h |-> U8_MAX, m |-> U8_MAX]
    /\ timestamp(meassurements[2]) = 15555
    /\ Len(screen.items) = 2
    /\ screen.items[2].rate.some

=============================================================================
